---- MODULE Spec2Model ----
(***************************************************************************)
(* Call-session lifecycle engine of test-talk: the sliding-window rate     *)
(* limiter (utils: RateLimiter, PhoneValidator), the in-memory call        *)
(* registry and the call orchestration of TestTalkService.                 *)
(*                                                                         *)
(* JavaScript strings that the code inspects character by character (phone *)
(* numbers) are sequences of one-character strings.  The JavaScript value  *)
(* undefined is the sentinel Undefined for such strings.                   *)
(***************************************************************************)
EXTENDS Integers, Sequences, FiniteSets, TLC

VARIABLES
    now,          \* the wall clock read by `new Date()` (ms)
    attempts,     \* RateLimiter.attempts : Map<string, {count, lastAttempt}>
    admitted,     \* observer: per identifier, the times of the checks that returned true
    activeCalls,  \* TestTalkService.activeCalls : Map<string, ActiveCall>
    callOrder,    \* the keys of activeCalls in the Map's iteration (insertion) order
    placing,      \* makeBrowserToPhoneCall invocations suspended on calls.create
    ending,       \* endCall invocations suspended on calls(sid).update
    fetching,     \* getCallDetails invocations suspended on calls(sid).fetch
    issued,       \* carrier side: the call sids the carrier has created
    sweepTimer,   \* TRUE while the setInterval handle of the constructor is live
    ret,          \* the most recent handler step: its call sid argument and its outcome
    out           \* the input and the value of the most recent query or generator call

vars == <<now, attempts, admitted, activeCalls, callOrder, placing, ending, fetching,
          issued, sweepTimer, ret, out>>

limiterVars == <<attempts, admitted>>
serviceVars == <<activeCalls, callOrder, placing, ending, fetching, issued, sweepTimer>>

----------------------------------------------------------------------------
(* Program constants *)

maxAttempts == 5

windowMs == 60000

staleMs == 3600000

(* Bounds of the model *)

\* clock readings are a base instant plus 0..MaxJitter ms
MaxJitter == 1

\* total number of admitted checks the observer of SpecLimiter records
MaxAdmits == 6

\* number of calls the carrier creates
MaxCalls == 1

\* number of carrier requests in flight at once
MaxInflight == 1

\* number of makeBrowserToPhoneCall requests of one caller suspended at once
MaxConcurrent == 2

\* number of calls placed and tracked before the handlers that must leave the
\* sessions alone are exercised
MaxPlaced == 2

\* number of call sids with which the registry on its own is exercised
MaxTracked == 1

\* number of sessions in the registries handed to the queries
MaxSessions == 2

----------------------------------------------------------------------------
(* Generic Map helpers (JavaScript Map as a function on its key set) *)

MapHas(m, k) == k \in DOMAIN m

MapSet(m, k, v) == [x \in (DOMAIN m) \cup {k} |-> IF x = k THEN v ELSE m[x]]

MapDelete(m, k) == [x \in (DOMAIN m) \ {k} |-> m[x]]

EmptyMap == [x \in {} |-> 0]

Range(q) == { q[i] : i \in 1..Len(q) }

\* Map iteration order after a handler that left the Map as `m`: the keys that were
\* deleted drop out, the others keep their place, and the key a handler inserted
\* (each handler inserts at most one) goes to the end
MapOrder(order, m) ==
    LET kept == SelectSeq(order, LAMBDA k : k \in DOMAIN m)
        new  == (DOMAIN m) \ Range(order)
    IN  IF new = {} THEN kept ELSE Append(kept, CHOOSE k \in new : TRUE)

----------------------------------------------------------------------------
(* Strings as character sequences *)

Undefined == <<"undefined">>

Digits == {"0", "1", "2", "3", "4", "5", "6", "7", "8", "9"}

\* JavaScript truthiness of a string-or-undefined value
Falsy(s) == s = Undefined \/ s = <<>>

IsDigitOrPlus(c) == c \in Digits \cup {"+"}

\* /^\+[1-9]\d{1,14}$/
PhoneValidator_isValid(s) ==
    /\ Len(s) >= 3
    /\ Len(s) <= 16
    /\ s[1] = "+"
    /\ s[2] \in Digits \ {"0"}
    /\ \A i \in 3..Len(s) : s[i] \in Digits

\* phoneNumber.replace(/[^\d+]/g, ''), then '+1' prefixed unless it starts with '+'
PhoneValidator_sanitize(s) ==
    LET cleaned == SelectSeq(s, IsDigitOrPlus)
    IN  IF Len(cleaned) > 0 /\ cleaned[1] = "+" THEN cleaned ELSE <<"+", "1">> \o cleaned

----------------------------------------------------------------------------
(* The clock *)

\* the instants at which the limiter on its own is exercised
Times == { b + j : b \in {0, windowMs, staleMs}, j \in 0..MaxJitter }

\* time passes between two calls of the limiter
Tick ==
    /\ \E t \in Times : t > now /\ now' = t
    /\ UNCHANGED <<limiterVars, serviceVars, ret, out>>

\* the instants at which the service is exercised: the start, and an instant more
\* than the staleness threshold (hence more than a window) later
ServiceTimes == { 0, staleMs + 1 + MaxJitter }

\* time passes between two steps of the service
Elapse ==
    /\ \E t \in ServiceTimes : t > now /\ now' = t
    /\ UNCHANGED <<limiterVars, serviceVars, ret, out>>

----------------------------------------------------------------------------
(* RateLimiter *)

\* check() with the window test `>=` in place of `>`
RateLimiter_check_ResetAtWindow(att, id, t) ==
    IF ~MapHas(att, id)
        THEN [ret |-> TRUE, att |-> MapSet(att, id, [count |-> 1, lastAttempt |-> t])]
    ELSE IF t - att[id].lastAttempt >= windowMs
        THEN [ret |-> TRUE, att |-> MapSet(att, id, [count |-> 1, lastAttempt |-> t])]
    ELSE IF att[id].count >= maxAttempts
        THEN [ret |-> FALSE, att |-> att]
    ELSE [ret |-> TRUE,
          att |-> MapSet(att, id, [count |-> att[id].count + 1, lastAttempt |-> t])]

\* check(identifier) at time t: the value returned and the attempts map afterwards
RateLimiter_check(att, id, t) ==
    IF ~MapHas(att, id)
        THEN [ret |-> TRUE, att |-> MapSet(att, id, [count |-> 1, lastAttempt |-> t])]
    ELSE IF t - att[id].lastAttempt > windowMs
        THEN [ret |-> TRUE, att |-> MapSet(att, id, [count |-> 1, lastAttempt |-> t])]
    ELSE IF att[id].count >= maxAttempts
        THEN [ret |-> FALSE, att |-> att]
    ELSE [ret |-> TRUE,
          att |-> MapSet(att, id, [count |-> att[id].count + 1, lastAttempt |-> t])]

\* cleanup() that removes every entry not used at this very instant
RateLimiter_cleanup_Idle(att, t) ==
    LET kept == { k \in DOMAIN att : ~(att[k].lastAttempt < t) }
    IN  [k \in kept |-> att[k]]

\* cleanup() that also removes the entries exactly one hour old
RateLimiter_cleanup_AtThreshold(att, t) ==
    LET oneHourAgo == t - staleMs
        kept == { k \in DOMAIN att : ~(att[k].lastAttempt <= oneHourAgo) }
    IN  [k \in kept |-> att[k]]

\* the attempts map after cleanup() at time t
RateLimiter_cleanup(att, t) ==
    LET oneHourAgo == t - staleMs
        kept == { k \in DOMAIN att : ~(att[k].lastAttempt < oneHourAgo) }
    IN  [k \in kept |-> att[k]]

\* clear() that leaves the map as it is
RateLimiter_clear_Keep(att) == att

RateLimiter_clear(att) == EmptyMap

----------------------------------------------------------------------------
(* Request inputs *)

\* values of `to` in POST /call: absent, empty, "+1-5" (valid once sanitized),
\* "+05" (leading zero) and a number of 16 digits (too long)
ToInputs ==
    { Undefined,
      <<>>,
      <<"+", "1", "-", "5">>,
      <<"+", "0", "5">>,
      <<"+", "1", "2", "3", "4", "5", "6", "7", "8", "9", "0", "1", "2", "3", "4", "5", "6">> }

\* values of `from` in POST /call: absent, 'browser' (the controller's default),
\* 'web' and '+15'
FromInputs ==
    { Undefined,
      <<"b", "r", "o", "w", "s", "e", "r">>,
      <<"w", "e", "b">>,
      <<"+", "1", "5">> }

\* the values of `from` with which the service as a whole is exercised
ServiceFromInputs == { Undefined, <<"b", "r", "o", "w", "s", "e", "r">> }

\* the identifiers the service hands to the limiter
LimiterIds == { PhoneValidator_sanitize(f) : f \in { g \in FromInputs : ~Falsy(g) } }

----------------------------------------------------------------------------
(* The limiter on its own: check, cleanup and clear called directly *)

NoRet == [op |-> "none", arg |-> "", exc |-> "none", val |-> "void"]

\* no query or generator has been called
NoOut == [op |-> "none"]

BoolStr(b) == IF b THEN "true" ELSE "false"

TotalAdmits == LET Sum[S \in SUBSET LimiterIds] ==
                       IF S = {} THEN 0
                       ELSE LET x == CHOOSE y \in S : TRUE
                            IN  Len(admitted[x]) + Sum[S \ {x}]
               IN  Sum[LimiterIds]

LimiterCheck(id) ==
    LET r == RateLimiter_check(attempts, id, now)
    IN  /\ r.ret => TotalAdmits < MaxAdmits
        /\ attempts' = r.att
        /\ admitted' = IF r.ret THEN [admitted EXCEPT ![id] = Append(@, now)] ELSE admitted
        /\ ret' = [op |-> "check", arg |-> "", exc |-> "none", val |-> BoolStr(r.ret)]
        /\ UNCHANGED <<now, serviceVars, out>>

LimiterCleanup ==
    /\ attempts' = RateLimiter_cleanup(attempts, now)
    /\ ret' = [op |-> "cleanup", arg |-> "", exc |-> "none", val |-> "void"]
    /\ UNCHANGED <<now, admitted, serviceVars, out>>

Init ==
    /\ now = 0
    /\ attempts = EmptyMap
    /\ admitted = [id \in LimiterIds |-> <<>>]
    /\ activeCalls = EmptyMap
    /\ callOrder = <<>>
    /\ placing = <<>>
    /\ ending = <<>>
    /\ fetching = <<>>
    /\ issued = {}
    /\ sweepTimer = TRUE
    /\ ret = NoRet
    /\ out = NoOut

NextLimiter ==
    \/ \E id \in LimiterIds : LimiterCheck(id)
    \/ LimiterCleanup
    \/ Tick

SpecLimiter == Init /\ [][NextLimiter]_vars

----------------------------------------------------------------------------
(* JavaScript values of optional numeric fields *)

JSUndefined == [kind |-> "undefined", v |-> 0]

JSNaN == [kind |-> "NaN", v |-> 0]

JSNumber(n) == [kind |-> "number", v |-> n]

DigitVal(c) == CHOOSE n \in 0..9 : ToString(n) = c

\* the longest prefix of s made of decimal digits
RECURSIVE DigitPrefix(_)
DigitPrefix(s) ==
    IF s = <<>> \/ Head(s) \notin Digits THEN <<>>
    ELSE <<Head(s)>> \o DigitPrefix(Tail(s))

RECURSIVE DecimalValue(_)
DecimalValue(ds) ==
    IF ds = <<>> THEN 0
    ELSE 10 * DecimalValue(SubSeq(ds, 1, Len(ds) - 1)) + DigitVal(ds[Len(ds)])

\* parseInt(s) for an unsigned decimal string: NaN unless s starts with a digit
ParseInt(s) ==
    IF DigitPrefix(s) = <<>> THEN JSNaN ELSE JSNumber(DecimalValue(DigitPrefix(s)))

----------------------------------------------------------------------------
(* Webhook and request inputs of the service *)

\* carrier call sids: "CA1", "CA2", ...
Sid(n) == "CA" \o ToString(n)

\* the sid of a call of the account that this process did not place
ForeignSid == "CA0"

\* '' stands for the empty string and for an absent field: both are falsy
NoSid == ""

\* the list of handleCallStatusUpdate without its last entry
TerminalStatuses_NoCanceled == {"completed", "busy", "failed", "no-answer"}

TerminalStatuses == {"completed", "busy", "failed", "no-answer", "canceled"}

\* an absent CallStatus field
UndefinedStatus == "undefined"

\* CallStatus values of the status webhooks with which the service as a whole is
\* exercised: the carrier's progress events and every final status
StatusInputs ==
    {"ringing", "in-progress", "completed", "busy", "failed", "no-answer", "canceled"}

\* Duration values of a status webhook
DurationInputs == { Undefined, <<"4", "2">> }

SidInputs == issued \cup {ForeignSid, NoSid}

NullPayload ==
    [null |-> TRUE, CallSid |-> NoSid, CallStatus |-> UndefinedStatus, Duration |-> Undefined]

\* status webhooks: a null body, a body without CallSid, and for every call sid
\* each status without Duration and a completed call with its Duration
StatusPayloads ==
    {NullPayload}
    \cup [null : {FALSE}, CallSid : {NoSid}, CallStatus : {"completed"}, Duration : {Undefined}]
    \cup [null : {FALSE}, CallSid : issued \cup {ForeignSid}, CallStatus : StatusInputs,
          Duration : {Undefined}]
    \cup [null : {FALSE}, CallSid : issued \cup {ForeignSid},
          CallStatus : {"completed"}, Duration : DurationInputs \ {Undefined}]

CarrierError == "error"

----------------------------------------------------------------------------
(* Outcomes of a handler *)

\* arg is the call sid the handler was given ('' when it takes none)
Returned(op, arg, v) == [op |-> op, arg |-> arg, exc |-> "none", val |-> v]

\* the handler is suspended on a carrier request
Pending(op, arg) == [op |-> op, arg |-> arg, exc |-> "none", val |-> "pending"]

Threw(op, arg, exc, msg) == [op |-> op, arg |-> arg, exc |-> exc, val |-> msg]

MissingParams == "Both to and from parameters are required"

InvalidDestination == "Invalid destination phone number format"

TooManyAttempts == "Too many call attempts. Please try again later."

FailedToMakeCall == "Failed to make call"

RemoveAt(q, i) == SubSeq(q, 1, i - 1) \o SubSeq(q, i + 1, Len(q))

Inflight == Len(placing) + Len(ending) + Len(fetching)

----------------------------------------------------------------------------
(* TestTalkService *)

\* trackActiveCall that keeps the entry a sid already has
trackActiveCall_KeepExisting(calls, callSid, callData) ==
    IF MapHas(calls, callSid) THEN calls ELSE MapSet(calls, callSid, callData)

\* trackActiveCall
trackActiveCall(calls, callSid, callData) == MapSet(calls, callSid, callData)

\* updateActiveCall without the `if (existingCall)` test: an upsert
updateActiveCall_Upsert(calls, callSid, status, duration, lastUpdated) ==
    MapSet(calls, callSid,
           IF MapHas(calls, callSid)
               THEN [calls[callSid] EXCEPT !.status = status,
                                           !.duration = duration,
                                           !.lastUpdated = lastUpdated]
               ELSE [status |-> status, duration |-> duration, lastUpdated |-> lastUpdated])

\* updateActiveCall that stamps createdAt anew with every update
updateActiveCall_RestampCreatedAt(calls, callSid, status, duration, lastUpdated) ==
    IF MapHas(calls, callSid)
        THEN MapSet(calls, callSid,
                    [calls[callSid] EXCEPT !.status = status,
                                           !.duration = duration,
                                           !.lastUpdated = lastUpdated,
                                           !.createdAt = lastUpdated.v])
        ELSE calls

\* updateActiveCall: { ...existingCall, ...updates } when the sid is tracked
updateActiveCall(calls, callSid, status, duration, lastUpdated) ==
    IF MapHas(calls, callSid)
        THEN MapSet(calls, callSid,
                    [calls[callSid] EXCEPT !.status = status,
                                           !.duration = duration,
                                           !.lastUpdated = lastUpdated])
        ELSE calls

\* the ActiveCall that makeBrowserToPhoneCall tracks
NewActiveCall(sid, to, from, t) ==
    [sid |-> sid, to |-> to, from |-> from, type |-> "browser-to-phone",
     status |-> "initiated", createdAt |-> t,
     duration |-> JSUndefined, lastUpdated |-> JSUndefined]

\* makeBrowserToPhoneCall with the result of rateLimiter.check ignored
PlaceCallAdmission_NoLimit(att, to, from, t) ==
    IF Falsy(to) \/ Falsy(from) THEN MissingParams
    ELSE IF ~PhoneValidator_isValid(PhoneValidator_sanitize(to)) THEN InvalidDestination
    ELSE "ok"

\* what makeBrowserToPhoneCall does before it reaches calls.create:
\* "ok", or the message of the BadRequestException it throws
PlaceCallAdmission(att, to, from, t) ==
    IF Falsy(to) \/ Falsy(from) THEN MissingParams
    ELSE IF ~PhoneValidator_isValid(PhoneValidator_sanitize(to)) THEN InvalidDestination
    ELSE IF ~RateLimiter_check(att, PhoneValidator_sanitize(from), t).ret THEN TooManyAttempts
    ELSE "ok"

\* makeBrowserToPhoneCall with the limiter consulted before the destination is validated
PlaceCallAttempts_LimiterFirst(att, to, from, t) ==
    IF Falsy(to) \/ Falsy(from) THEN att
    ELSE RateLimiter_check(att, PhoneValidator_sanitize(from), t).att

\* makeBrowserToPhoneCall asking the limiter about `from` as given, not sanitized
PlaceCallAttempts_RawFrom(att, to, from, t) ==
    IF Falsy(to) \/ Falsy(from) THEN att
    ELSE IF ~PhoneValidator_isValid(PhoneValidator_sanitize(to)) THEN att
    ELSE RateLimiter_check(att, from, t).att

\* makeBrowserToPhoneCall sending the request without the limiter noting the attempt
PlaceCallAttempts_NotRecorded(att, to, from, t) == att

\* the attempts map after the part of makeBrowserToPhoneCall before calls.create
PlaceCallAttempts(att, to, from, t) ==
    IF Falsy(to) \/ Falsy(from) THEN att
    ELSE IF ~PhoneValidator_isValid(PhoneValidator_sanitize(to)) THEN att
    ELSE RateLimiter_check(att, PhoneValidator_sanitize(from), t).att

\* the carrier's answers to a calls.create request: an error, or the next fresh sid
CarrierCreateAnswers ==
    {CarrierError} \cup
    (IF Cardinality(issued) < MaxCalls THEN {Sid(Cardinality(issued) + 1)} ELSE {})

\* makeBrowserToPhoneCall up to `await this.twilioClient.calls.create(...)`.
\* The carrier's eventual answer is fixed when the request is sent, so that status
\* webhooks of the new call can arrive before the handler resumes.  How many
\* requests may be suspended at once, and what the observer `admitted` notes, is
\* left to the caller.
PlaceCall(to, from) ==
    /\ sweepTimer
    /\ LET adm == PlaceCallAdmission(attempts, to, from, now)
       IN  /\ attempts' = PlaceCallAttempts(attempts, to, from, now)
           /\ IF adm = "ok"
                THEN /\ \E resp \in CarrierCreateAnswers :
                          /\ placing' = Append(placing,
                                               [to |-> to, from |-> from,
                                                sanitizedTo |-> PhoneValidator_sanitize(to),
                                                sanitizedFrom |-> PhoneValidator_sanitize(from),
                                                resp |-> resp])
                          /\ issued' = IF resp = CarrierError THEN issued
                                       ELSE issued \cup {resp}
                     /\ ret' = Pending("makeBrowserToPhoneCall", "")
                ELSE /\ ret' = Threw("makeBrowserToPhoneCall", "", "BadRequestException", adm)
                     /\ UNCHANGED <<placing, issued>>
    /\ UNCHANGED <<now, activeCalls, callOrder, ending, fetching, sweepTimer, out>>

\* makeBrowserToPhoneCall tracking the request's `to` as given, not sanitized
PlaceCallTrack_RawTo(calls, req, t) ==
    IF req.resp = CarrierError THEN calls
    ELSE trackActiveCall(calls, req.resp,
                         NewActiveCall(req.resp, req.to, req.sanitizedFrom, t))

\* the registry after makeBrowserToPhoneCall resumes with the carrier's answer
PlaceCallTrack(calls, req, t) ==
    IF req.resp = CarrierError THEN calls
    ELSE trackActiveCall(calls, req.resp,
                         NewActiveCall(req.resp, req.sanitizedTo, req.sanitizedFrom, t))

\* makeBrowserToPhoneCall whose catch block reports every error as a bad request
PlaceCallOutcome_AllBadRequest(req) ==
    IF req.resp = CarrierError
        THEN Threw("makeBrowserToPhoneCall", "", "BadRequestException", FailedToMakeCall)
        ELSE Returned("makeBrowserToPhoneCall", "", req.resp)

\* what makeBrowserToPhoneCall settles with after it resumes
PlaceCallOutcome(req) ==
    IF req.resp = CarrierError
        THEN Threw("makeBrowserToPhoneCall", "", "InternalServerErrorException",
                   FailedToMakeCall)
        ELSE Returned("makeBrowserToPhoneCall", "", req.resp)

\* makeBrowserToPhoneCall giving the attempt back when the carrier refused the call
PlaceCallResume_RollsBack(i) ==
    /\ i \in 1..Len(placing)
    /\ activeCalls' = PlaceCallTrack(activeCalls, placing[i], now)
    /\ attempts' = IF placing[i].resp = CarrierError /\ MapHas(attempts, placing[i].sanitizedFrom)
                     THEN [attempts EXCEPT ![placing[i].sanitizedFrom].count = @ - 1]
                     ELSE attempts
    /\ ret' = PlaceCallOutcome(placing[i])
    /\ callOrder' = MapOrder(callOrder, activeCalls')
    /\ placing' = RemoveAt(placing, i)
    /\ UNCHANGED <<now, admitted, ending, fetching, issued, sweepTimer, out>>

\* makeBrowserToPhoneCall from the carrier's answer to its return or throw
PlaceCallResume(i) ==
    /\ i \in 1..Len(placing)
    /\ activeCalls' = PlaceCallTrack(activeCalls, placing[i], now)
    /\ ret' = PlaceCallOutcome(placing[i])
    /\ callOrder' = MapOrder(callOrder, activeCalls')
    /\ placing' = RemoveAt(placing, i)
    /\ UNCHANGED <<now, limiterVars, ending, fetching, issued, sweepTimer, out>>

\* handleCallStatusUpdate keeping the session of a call that reached a final status
StatusUpdateCalls_KeepTerminal(calls, p, t) ==
    IF p.null \/ p.CallSid = NoSid THEN calls
    ELSE updateActiveCall(calls, p.CallSid, p.CallStatus,
                          IF Falsy(p.Duration) THEN JSUndefined ELSE ParseInt(p.Duration),
                          JSNumber(t))

\* handleCallStatusUpdate adding the reported Duration to the stored duration
StatusUpdateCalls_AddDuration(calls, p, t) ==
    IF p.null \/ p.CallSid = NoSid THEN calls
    ELSE LET reported == IF Falsy(p.Duration) THEN JSUndefined ELSE ParseInt(p.Duration)
             stored   == IF MapHas(calls, p.CallSid) THEN calls[p.CallSid].duration
                         ELSE JSUndefined
             total    == IF reported.kind = "number" /\ stored.kind = "number"
                            THEN JSNumber(stored.v + reported.v)
                            ELSE reported
             updated  == updateActiveCall(calls, p.CallSid, p.CallStatus, total, JSNumber(t))
         IN  IF p.CallStatus \in TerminalStatuses
                THEN MapDelete(updated, p.CallSid)
                ELSE updated

\* the registry after handleCallStatusUpdate(callStatus)
StatusUpdateCalls(calls, p, t) ==
    IF p.null \/ p.CallSid = NoSid THEN calls
    ELSE LET updated == updateActiveCall(calls, p.CallSid, p.CallStatus,
                                         IF Falsy(p.Duration) THEN JSUndefined
                                         ELSE ParseInt(p.Duration),
                                         JSNumber(t))
         IN  IF p.CallStatus \in TerminalStatuses
                THEN MapDelete(updated, p.CallSid)
                ELSE updated

\* handleCallStatusUpdate destructuring the payload with neither `?.` nor try/catch
StatusUpdateOutcome_NoGuard(p) ==
    IF p.null
        THEN Threw("handleCallStatusUpdate", NoSid, "TypeError", "Cannot destructure")
        ELSE Returned("handleCallStatusUpdate", p.CallSid, "void")

\* what handleCallStatusUpdate settles with: it returns nothing, for every payload
StatusUpdateOutcome(p) ==
    Returned("handleCallStatusUpdate", IF p.null THEN NoSid ELSE p.CallSid, "void")

\* handleCallStatusUpdate (it leaves `out` to its caller, who may record the event)
HandleCallStatusUpdate(p) ==
    /\ sweepTimer
    /\ activeCalls' = StatusUpdateCalls(activeCalls, p, now)
    /\ callOrder' = MapOrder(callOrder, activeCalls')
    /\ ret' = StatusUpdateOutcome(p)
    /\ UNCHANGED <<now, limiterVars, placing, ending, fetching, issued, sweepTimer>>

\* endCall up to `await this.twilioClient.calls(callSid).update(...)`
EndCall(callSid) ==
    /\ sweepTimer
    /\ IF callSid = NoSid
         THEN /\ ret' = Returned("endCall", callSid, "false")
              /\ UNCHANGED ending
         ELSE /\ Inflight < MaxInflight
              /\ ending' = Append(ending, callSid)
              /\ ret' = Pending("endCall", callSid)
    /\ UNCHANGED <<now, limiterVars, activeCalls, callOrder, placing, fetching, issued,
                   sweepTimer, out>>

\* endCall without `this.activeCalls.delete(callSid)`
EndCallCalls_NoDelete(calls, callSid, ok) == calls

\* endCall removing the session whatever the carrier answered
EndCallCalls_DeleteAlways(calls, callSid, ok) == MapDelete(calls, callSid)

\* endCall marking the session completed and keeping it
EndCallCalls_MarkCompleted(calls, callSid, ok) ==
    IF ok /\ MapHas(calls, callSid)
        THEN MapSet(calls, callSid, [calls[callSid] EXCEPT !.status = "completed"])
        ELSE calls

\* the registry after endCall resumes; ok is whether the carrier's update succeeded
EndCallCalls(calls, callSid, ok) == IF ok THEN MapDelete(calls, callSid) ELSE calls

\* endCall from the carrier's answer to its return
EndCallResume(i, ok) ==
    /\ i \in 1..Len(ending)
    /\ activeCalls' = EndCallCalls(activeCalls, ending[i], ok)
    /\ ret' = Returned("endCall", ending[i], BoolStr(ok))
    /\ callOrder' = MapOrder(callOrder, activeCalls')
    /\ ending' = RemoveAt(ending, i)
    /\ UNCHANGED <<now, limiterVars, placing, fetching, issued, sweepTimer, out>>

\* the setInterval callback of the constructor: rateLimiter.cleanup()
Sweep ==
    /\ sweepTimer
    /\ attempts' = RateLimiter_cleanup(attempts, now)
    /\ UNCHANGED <<now, admitted, serviceVars, ret, out>>

\* onModuleDestroy -> cleanup(): clearInterval, activeCalls.clear(), rateLimiter.clear().
\* No new request is dispatched to the service afterwards; suspended handlers resume.
Shutdown ==
    /\ sweepTimer
    /\ sweepTimer' = FALSE
    /\ activeCalls' = EmptyMap
    /\ callOrder' = <<>>
    /\ attempts' = RateLimiter_clear(attempts)
    /\ ret' = Returned("onModuleDestroy", "", "void")
    /\ UNCHANGED <<now, admitted, placing, ending, fetching, issued, out>>

Next ==
    \/ \E to \in ToInputs, from \in ServiceFromInputs :
          PlaceCall(to, from) /\ Inflight' <= MaxInflight /\ UNCHANGED admitted
    \/ \E i \in 1..MaxInflight : PlaceCallResume(i)
    \/ \E p \in StatusPayloads : HandleCallStatusUpdate(p) /\ UNCHANGED out
    \/ \E sid \in SidInputs : EndCall(sid)
    \/ \E i \in 1..MaxInflight, ok \in BOOLEAN : EndCallResume(i, ok)
    \/ Sweep
    \/ Shutdown
    \/ Elapse

Spec == Init /\ [][Next]_vars

----------------------------------------------------------------------------
(* The registry on its own: the Map operations of the service called directly, *)
(* and status events of every shape delivered to handleCallStatusUpdate        *)

RegistrySids == { Sid(i) : i \in 1..MaxTracked }

\* this.activeCalls.get(callSid): the stored session, or undefined
activeCalls_get(calls, callSid) ==
    IF MapHas(calls, callSid) THEN calls[callSid] ELSE JSUndefined

\* status webhooks for the registry on its own: any sid, a progress status, an
\* absent status or a final one, with Duration absent, decimal or not a number
RegistryPayloads ==
    {NullPayload}
    \cup [null : {FALSE}, CallSid : RegistrySids \cup {ForeignSid},
          CallStatus : {"in-progress", UndefinedStatus, "completed"},
          Duration : DurationInputs \cup {<<"x">>}]

\* this.trackActiveCall(sid, {...}) with the session makeBrowserToPhoneCall builds
RegistryTrack(sid) ==
    LET callData == NewActiveCall(sid, <<"+", "1", "5">>, <<"+", "1">>, now)
    IN  /\ activeCalls' = trackActiveCall(activeCalls, sid, callData)
        /\ callOrder' = MapOrder(callOrder, activeCalls')
        /\ ret' = Returned("trackActiveCall", sid, "void")
        /\ out' = [op |-> "trackActiveCall", val |-> callData]
        /\ UNCHANGED <<now, limiterVars, placing, ending, fetching, issued, sweepTimer>>

\* this.activeCalls.get(callSid)
RegistryGet(sid) ==
    /\ ret' = Returned("get", sid, "void")
    /\ out' = [op |-> "get", val |-> activeCalls_get(activeCalls, sid)]
    /\ UNCHANGED <<now, limiterVars, serviceVars>>

\* this.activeCalls.delete(callSid)
RegistryDelete(sid) ==
    /\ activeCalls' = MapDelete(activeCalls, sid)
    /\ callOrder' = MapOrder(callOrder, activeCalls')
    /\ ret' = Returned("delete", sid, "void")
    /\ out' = [op |-> "delete", val |-> BoolStr(MapHas(activeCalls, sid))]
    /\ UNCHANGED <<now, limiterVars, placing, ending, fetching, issued, sweepTimer>>

\* POST /call-status: the event is handed to handleCallStatusUpdate; `again` tells
\* that it is the very event that was delivered in the step before
DeliverStatusEvent(p) ==
    /\ HandleCallStatusUpdate(p)
    /\ out' = [op |-> "handleCallStatusUpdate", val |-> p,
               again |-> (out.op = "handleCallStatusUpdate" /\ out.val = p)]

NextRegistry ==
    \/ \E sid \in RegistrySids : RegistryTrack(sid)
    \/ \E sid \in RegistrySids \cup {ForeignSid} : RegistryGet(sid)
    \/ \E sid \in RegistrySids \cup {ForeignSid} : RegistryDelete(sid)
    \/ \E p \in RegistryPayloads : DeliverStatusEvent(p)
    \/ Elapse

SpecRegistry == Init /\ [][NextRegistry]_vars

----------------------------------------------------------------------------
(* Concurrent makeBrowserToPhoneCall requests of one caller: several requests are *)
(* suspended on calls.create at once, and the observer `admitted` notes the time  *)
(* of every create request sent to the carrier                                    *)

\* the request bodies: one destination, and two spellings of the browser caller
\* that sanitize to the same identifier
ConcurrentToInputs == { <<"+", "1", "-", "5">> }

ConcurrentFromInputs == { <<"b", "r", "o", "w", "s", "e", "r">>, <<"w", "e", "b">> }

\* the instants at which requests arrive: the start, one millisecond later, the
\* end of the first window and one millisecond after it
WindowTimes == { 0, 1, windowMs, windowMs + 1 }

Advance ==
    /\ \E t \in WindowTimes : t > now /\ now' = t
    /\ UNCHANGED <<limiterVars, serviceVars, ret, out>>

\* POST /call: the step of makeBrowserToPhoneCall that reaches calls.create is noted
\* under the identifier the limiter was asked about
PlaceCallObserved(to, from) ==
    /\ PlaceCall(to, from)
    /\ admitted' = IF Len(placing') > Len(placing)
                     THEN [admitted EXCEPT ![PhoneValidator_sanitize(from)] = Append(@, now)]
                     ELSE admitted

NextConcurrent ==
    \/ \E to \in ConcurrentToInputs, from \in ConcurrentFromInputs :
          /\ PlaceCallObserved(to, from)
          /\ Len(placing') <= MaxConcurrent
          /\ TotalAdmits' <= MaxAdmits
    \/ \E i \in 1..MaxConcurrent : PlaceCallResume(i)
    \/ Advance

SpecConcurrent == Init /\ [][NextConcurrent]_vars

----------------------------------------------------------------------------
(* Requests of several callers: every spelling of `from`, one request at a time *)

NextCallers ==
    \/ \E to \in ConcurrentToInputs, from \in FromInputs :
          PlaceCall(to, from) /\ Inflight' <= MaxInflight /\ UNCHANGED admitted
    \/ \E i \in 1..MaxInflight : PlaceCallResume(i)
    \/ Elapse

SpecCallers == Init /\ [][NextCallers]_vars

----------------------------------------------------------------------------
(* Status webhooks racing with makeBrowserToPhoneCall: events of a call the      *)
(* carrier has created are delivered before and after the handler resumes        *)

\* status webhooks of the calls the carrier created: progress and completion
RacePayloads ==
    [null : {FALSE}, CallSid : issued, CallStatus : {"in-progress", "completed"},
     Duration : {Undefined}]

NextRace ==
    \/ \E to \in ConcurrentToInputs, from \in ServiceFromInputs \ {Undefined} :
          PlaceCall(to, from) /\ Inflight' <= MaxInflight /\ UNCHANGED admitted
    \/ \E i \in 1..MaxInflight : PlaceCallResume(i)
    \/ \E p \in RacePayloads : DeliverStatusEvent(p)

SpecRace == Init /\ [][NextRace]_vars

----------------------------------------------------------------------------
(* The queries: getActiveCalls, getCallStatistics and getOldestActiveCall    *)
(* applied to registries of every content                                    *)

JSNull == [kind |-> "null", v |-> 0]

\* a function object (which one does not matter)
JSFunction == [kind |-> "function", v |-> 0]

\* a string produced by `+` (its text does not matter: it is no number)
JSString == [kind |-> "string", v |-> 0]

\* JavaScript truthiness of a value of an optional numeric field
Truthy(x) == x.kind \in {"function", "string"} \/ (x.kind = "number" /\ x.v # 0)

\* the function-valued members every object literal inherits from Object.prototype
ObjectPrototypeKeys ==
    {"constructor", "hasOwnProperty", "isPrototypeOf", "propertyIsEnumerable",
     "toLocaleString", "toString", "valueOf"}

\* obj[key] on an object literal: the own property, else the inherited member,
\* else undefined
ObjectGet(obj, key) ==
    IF key \in DOMAIN obj THEN obj[key]
    ELSE IF key \in ObjectPrototypeKeys THEN JSFunction
    ELSE JSUndefined

\* (x || 0) + 1: numeric addition on a number, string concatenation otherwise
OrZeroPlusOne(x) ==
    IF ~Truthy(x) THEN JSNumber(1)
    ELSE IF x.kind = "number" THEN JSNumber(x.v + 1)
    ELSE JSString

\* record[key] = (record[key] || 0) + 1
CountKey(obj, key) == MapSet(obj, key, OrZeroPlusOne(ObjectGet(obj, key)))

\* getActiveCalls(): Array.from(this.activeCalls.values())
getActiveCalls(calls, order) == [i \in 1..Len(order) |-> calls[order[i]]]

\* the forEach of getCallStatistics over the array `list`, from the accumulators acc
RECURSIVE StatisticsFold(_, _)
StatisticsFold(list, acc) ==
    IF list = <<>> THEN acc
    ELSE LET call    == Head(list)
             counted == call.status = "completed" /\ Truthy(call.duration)
         IN  StatisticsFold(Tail(list),
                 [callsByStatus  |-> CountKey(acc.callsByStatus, call.status),
                  callsByType    |-> CountKey(acc.callsByType, call.type),
                  totalDuration  |-> IF counted THEN acc.totalDuration + call.duration.v
                                     ELSE acc.totalDuration,
                  completedCalls |-> IF counted THEN acc.completedCalls + 1
                                     ELSE acc.completedCalls])

\* getCallStatistics(); the quotient totalDuration / completedCalls is kept as the
\* fraction num/den, and the literal 0 as 0/1
getCallStatistics(calls, order) ==
    LET list == getActiveCalls(calls, order)
        acc  == StatisticsFold(list, [callsByStatus |-> EmptyMap, callsByType |-> EmptyMap,
                                      totalDuration |-> 0, completedCalls |-> 0])
    IN  [totalActiveCalls    |-> Len(list),
         callsByStatus       |-> acc.callsByStatus,
         callsByType         |-> acc.callsByType,
         averageCallDuration |-> IF acc.completedCalls > 0
                                    THEN [num |-> acc.totalDuration, den |-> acc.completedCalls]
                                    ELSE [num |-> 0, den |-> 1]]

\* the reducer of getOldestActiveCall with `<=`: the later of two equally old calls
OlderOf_OrEqual(oldest, current) ==
    IF current.createdAt <= oldest.createdAt THEN current ELSE oldest

\* the reducer of getOldestActiveCall
OlderOf(oldest, current) ==
    IF current.createdAt < oldest.createdAt THEN current ELSE oldest

\* calls.reduce(reducer) continued over `list` from the accumulator `oldest`
RECURSIVE ReduceOldest(_, _)
ReduceOldest(list, oldest) ==
    IF list = <<>> THEN oldest
    ELSE ReduceOldest(Tail(list), OlderOf(oldest, Head(list)))

\* getOldestActiveCall()
getOldestActiveCall(calls, order) ==
    LET list == getActiveCalls(calls, order)
    IN  IF Len(list) = 0 THEN JSNull ELSE ReduceOldest(Tail(list), Head(list))

QuerySids == { Sid(i) : i \in 1..MaxSessions }

\* status, duration and type of the sessions of the registries the queries are given
QueryShapes ==
    { [status |-> "ringing",     duration |-> JSUndefined,  type |-> "browser-to-phone"],
      [status |-> "ringing",     duration |-> JSNumber(42), type |-> "phone-to-browser"],
      [status |-> "constructor", duration |-> JSUndefined,  type |-> "browser-to-phone"],
      [status |-> "completed",   duration |-> JSUndefined,  type |-> "phone-to-browser"],
      [status |-> "completed",   duration |-> JSNumber(0),  type |-> "browser-to-phone"],
      [status |-> "completed",   duration |-> JSNumber(42), type |-> "browser-to-phone"] }

\* createdAt of those sessions
QueryTimes == 0..MaxJitter

QuerySession(sid, shape, t) ==
    [NewActiveCall(sid, <<"+", "1", "5">>, <<"+", "1">>, t)
        EXCEPT !.status = shape.status, !.duration = shape.duration, !.type = shape.type]

\* the iteration orders of a Map of at most MaxSessions entries
QueryOrders ==
    { q \in UNION { [1..n -> QuerySids] : n \in 0..MaxSessions } :
        \A i, j \in 1..Len(q) : i # j => q[i] # q[j] }

\* a registry of any content and insertion order, the service otherwise as constructed
InitQueries ==
    /\ now = 0
    /\ attempts = EmptyMap
    /\ admitted = [id \in LimiterIds |-> <<>>]
    /\ callOrder \in QueryOrders
    /\ activeCalls \in
         { [sid \in Range(callOrder) |-> QuerySession(sid, g[sid][1], g[sid][2])] :
             g \in [Range(callOrder) -> QueryShapes \X QueryTimes] }
    /\ placing = <<>>
    /\ ending = <<>>
    /\ fetching = <<>>
    /\ issued = Range(callOrder)
    /\ sweepTimer = TRUE
    /\ ret = NoRet
    /\ out = NoOut

\* GET /statistics
QueryStatistics ==
    /\ out' = [op |-> "getCallStatistics", val |-> getCallStatistics(activeCalls, callOrder)]
    /\ UNCHANGED <<now, limiterVars, serviceVars, ret>>

\* getOldestActiveCall()
QueryOldest ==
    /\ out' = [op |-> "getOldestActiveCall", val |-> getOldestActiveCall(activeCalls, callOrder)]
    /\ UNCHANGED <<now, limiterVars, serviceVars, ret>>

NextQueries == QueryStatistics \/ QueryOldest

SpecQueries == InitQueries /\ [][NextQueries]_vars

----------------------------------------------------------------------------
(* TwiML documents: TwiMLGenerator and the service methods that return a     *)
(* document.  A document is the sequence of its verbs.                       *)

\* a truthy request value that is no string (a JSON number, an array, an object)
NonString == <<"[non-string]">>

IsString(x) == x # Undefined /\ x # NonString

ClientPrefix == <<"c", "l", "i", "e", "n", "t", ":">>

\* s.startsWith(prefix)
StartsWith(s, prefix) ==
    Len(s) >= Len(prefix) /\ SubSeq(s, 1, Len(prefix)) = prefix

\* s.replace(pattern, replacement) with a string pattern: the first occurrence only
ReplaceFirst(s, pattern, replacement) ==
    LET at == { i \in 1..(Len(s) - Len(pattern) + 1) :
                  SubSeq(s, i, i + Len(pattern) - 1) = pattern }
    IN  IF at = {} THEN s
        ELSE LET i == CHOOSE j \in at : \A k \in at : j <= k
             IN  SubSeq(s, 1, i - 1) \o replacement \o SubSeq(s, i + Len(pattern), Len(s))

HoldText == "Please hold while we connect your call."

UnavailableText ==
    "Sorry, no one is available to take your call right now. Please try again later."

NotCompletedText == "The call could not be completed. Please try again later."

ThankYouText == "Thank you for calling. Goodbye."

CallEndedText == "Call ended."

DefaultErrorText == "We are experiencing technical difficulties. Please try again later."

MissingInformationText == "Unable to process call. Missing required information."

DialStatusAction == "/api/v1/test-talk/dial-status"

\* response.say(attributes, text); voice is "" when no attributes are given
SayVerb(voice, text) == [verb |-> "Say", voice |-> voice, text |-> text]

\* response.dial(attributes) with the nouns added to it; action is "" when not given
DialVerb(callerId, timeout, action, nouns) ==
    [verb |-> "Dial", callerId |-> callerId, timeout |-> timeout, action |-> action,
     answerOnBridge |-> TRUE, nouns |-> nouns]

ClientNoun(identity) == [noun |-> "Client", value |-> identity]

NumberNoun(number) == [noun |-> "Number", value |-> number]

\* a call that returned the document d / that threw
Doc(d) == [exc |-> "none", doc |-> d]

Raise(e) == [exc |-> e, doc |-> <<>>]

\* generateOutboundCall dialling the client address as given
generateOutboundCall_KeepPrefix(to, from) ==
    IF ~IsString(to) THEN Raise("TypeError")
    ELSE IF StartsWith(to, ClientPrefix)
        THEN Doc(<<DialVerb(from, 30, "", <<ClientNoun(to)>>)>>)
        ELSE Doc(<<DialVerb(from, 30, "", <<NumberNoun(to)>>)>>)

\* TwiMLGenerator.generateOutboundCall; to.startsWith throws when `to` is no string
generateOutboundCall(to, from) ==
    IF ~IsString(to) THEN Raise("TypeError")
    ELSE IF StartsWith(to, ClientPrefix)
        THEN Doc(<<DialVerb(from, 30, "", <<ClientNoun(ReplaceFirst(to, ClientPrefix, <<>>))>>)>>)
        ELSE Doc(<<DialVerb(from, 30, "", <<NumberNoun(to)>>)>>)

\* TwiMLGenerator.generateIncomingCall
generateIncomingCall(clientIdentity) ==
    Doc(<<SayVerb("alice", HoldText),
          DialVerb(Undefined, 30, DialStatusAction,
                   IF ~Falsy(clientIdentity) THEN <<ClientNoun(clientIdentity)>> ELSE <<>>)>>
        \o (IF ~Falsy(clientIdentity) THEN <<>> ELSE <<SayVerb("alice", UnavailableText)>>))

\* generateDialStatus whose switch has no default branch but a throw
generateDialStatus_NoDefault(dialStatus) ==
    IF dialStatus \in {"no-answer", "busy", "failed"} THEN Doc(<<SayVerb("", NotCompletedText)>>)
    ELSE IF dialStatus = "completed" THEN Doc(<<SayVerb("", ThankYouText)>>)
    ELSE Raise("Error")

\* TwiMLGenerator.generateDialStatus
generateDialStatus(dialStatus) ==
    IF dialStatus \in {"no-answer", "busy", "failed"} THEN Doc(<<SayVerb("", NotCompletedText)>>)
    ELSE IF dialStatus = "completed" THEN Doc(<<SayVerb("", ThankYouText)>>)
    ELSE Doc(<<SayVerb("", CallEndedText)>>)

\* TwiMLGenerator.generateErrorResponse
generateErrorResponse(message) == Doc(<<SayVerb("alice", message)>>)

\* twilioConfig.getConfig().phoneNumber: a configured number that starts with '+'
ConfigPhoneNumber == <<"+", "1", "9">>

\* getAvailableClient
getAvailableClient(from) == <<"u", "s", "e", "r">>

\* try { ... } catch: what a method makes of the outcome r of its try block when
\* its catch block returns the document `fallback`
CatchReturn(r, fallback) == IF r.exc = "none" THEN r ELSE fallback

\* TestTalkService.generateTwiMLResponse; its catch block throws
generateTwiMLResponse(to, from, callType) ==
    LET body == IF callType = "outbound" /\ ~Falsy(to)
                    THEN generateOutboundCall(to, ConfigPhoneNumber)
                ELSE IF callType = "inbound"
                    THEN generateIncomingCall(getAvailableClient(from))
                ELSE generateErrorResponse(DefaultErrorText)
    IN  IF body.exc = "none" THEN body ELSE Raise("InternalServerErrorException")

\* TestTalkService.generateIncomingCallTwiML; PhoneValidator.sanitize throws when
\* `from` is no string
generateIncomingCallTwiML(from, to) ==
    LET body == IF Falsy(from) \/ Falsy(to) THEN generateErrorResponse(MissingInformationText)
                ELSE IF ~IsString(from) THEN Raise("TypeError")
                ELSE generateIncomingCall(getAvailableClient(PhoneValidator_sanitize(from)))
    IN  CatchReturn(body, generateErrorResponse(DefaultErrorText))

\* a dial-status webhook body; null is a request without a body
NullDialStatus == [null |-> TRUE, DialCallStatus |-> UndefinedStatus, CallSid |-> NoSid]

\* TestTalkService.handleDialStatus; destructuring a null body throws
handleDialStatus(dialStatus) ==
    LET body == IF dialStatus.null THEN Raise("TypeError")
                ELSE generateDialStatus(dialStatus.DialCallStatus)
    IN  CatchReturn(body, generateErrorResponse(CallEndedText))

\* `To` / `to` of a voice or incoming webhook
TwimlToInputs ==
    { Undefined, <<>>, NonString,
      <<"+", "1", "5">>,
      ClientPrefix,
      ClientPrefix \o <<"a", "l">>,
      ClientPrefix \o ClientPrefix \o <<"b">>,
      <<"x">> \o ClientPrefix \o <<"b">> }

\* `From` of a voice or incoming webhook
TwimlFromInputs == { Undefined, <<>>, NonString, <<"+", "1", "5">>, <<"1", "-", "5">> }

\* the clientIdentity handed to generateIncomingCall
IdentityInputs == { Undefined, <<>>, <<"u", "s", "e", "r">> }

\* DialCallStatus values: the four the switch names, two it does not, '' and absent
DialStatusInputs ==
    {"no-answer", "busy", "failed", "completed", "answered", "canceled", "", UndefinedStatus}

DialStatusPayloads ==
    {NullDialStatus}
    \cup [null : {FALSE}, DialCallStatus : DialStatusInputs, CallSid : {ForeignSid, NoSid}]

\* the generator or service method `op` called with the inputs `in`, giving `r`
Generated(op, in, r) == [op |-> op, in |-> in, exc |-> r.exc, doc |-> r.doc]

GenerateOutboundCall(to, from) ==
    /\ out' = Generated("generateOutboundCall", <<to, from>>, generateOutboundCall(to, from))
    /\ UNCHANGED <<now, limiterVars, serviceVars, ret>>

GenerateIncomingCall(clientIdentity) ==
    /\ out' = Generated("generateIncomingCall", <<clientIdentity>>,
                        generateIncomingCall(clientIdentity))
    /\ UNCHANGED <<now, limiterVars, serviceVars, ret>>

GenerateDialStatus(dialStatus) ==
    /\ out' = Generated("generateDialStatus", <<dialStatus>>, generateDialStatus(dialStatus))
    /\ UNCHANGED <<now, limiterVars, serviceVars, ret>>

\* POST /voice -> generateTwiMLResponse(To, From, 'outbound'), and the inbound call type
GenerateTwiMLResponse(to, from, callType) ==
    /\ out' = Generated("generateTwiMLResponse", <<to, from, callType>>,
                        generateTwiMLResponse(to, from, callType))
    /\ UNCHANGED <<now, limiterVars, serviceVars, ret>>

\* POST /incoming -> generateIncomingCallTwiML(From, To)
GenerateIncomingCallTwiML(from, to) ==
    /\ out' = Generated("generateIncomingCallTwiML", <<from, to>>,
                        generateIncomingCallTwiML(from, to))
    /\ UNCHANGED <<now, limiterVars, serviceVars, ret>>

\* POST /dial-status -> handleDialStatus(body)
\* POST /dial-status removing the session of a call whose dial result is final
HandleDialStatus_EndsSession(dialStatus) ==
    /\ out' = Generated("handleDialStatus", dialStatus, handleDialStatus(dialStatus))
    /\ activeCalls' = IF ~dialStatus.null /\ dialStatus.DialCallStatus \in TerminalStatuses
                        THEN MapDelete(activeCalls, dialStatus.CallSid)
                        ELSE activeCalls
    /\ callOrder' = MapOrder(callOrder, activeCalls')
    /\ UNCHANGED <<now, limiterVars, placing, ending, fetching, issued, sweepTimer, ret>>

HandleDialStatus(dialStatus) ==
    /\ out' = Generated("handleDialStatus", dialStatus, handleDialStatus(dialStatus))
    /\ UNCHANGED <<now, limiterVars, serviceVars, ret>>

NextTwiml ==
    \/ \E to \in TwimlToInputs, from \in TwimlFromInputs : GenerateOutboundCall(to, from)
    \/ \E identity \in IdentityInputs : GenerateIncomingCall(identity)
    \/ \E status \in DialStatusInputs : GenerateDialStatus(status)
    \/ \E to \in TwimlToInputs, from \in TwimlFromInputs, callType \in {"outbound", "inbound"} :
          GenerateTwiMLResponse(to, from, callType)
    \/ \E from \in TwimlFromInputs, to \in TwimlToInputs : GenerateIncomingCallTwiML(from, to)
    \/ \E body \in DialStatusPayloads : HandleDialStatus(body)

SpecTwiml == Init /\ [][NextTwiml]_vars

----------------------------------------------------------------------------
(* getCallDetails, and the service with calls already placed: status webhooks, *)
(* endCall, dial-status webhooks, getCallDetails, the queries and the sweep    *)

\* calls(sid).fetch() failed
FetchFailed == [ok |-> FALSE]

\* the call resources calls(sid).fetch() answers with: duration is null (the
\* sentinel Undefined) or a decimal string, direction tells who placed the call
CarrierCalls(sid) ==
    [ok : {TRUE}, sid : {sid}, to : {<<"+", "1", "5">>}, from : {<<"+", "1">>},
     status : {"completed"}, duration : {Undefined, <<"4", "2">>},
     direction : {"outbound-api", "inbound"}, dateCreated : {0}]

FetchAnswers(sid) == {FetchFailed} \cup CarrierCalls(sid)

\* the ActiveCall getCallDetails builds from a fetched call resource
DetailsView(call) ==
    [sid |-> call.sid, to |-> call.to, from |-> call.from, status |-> call.status,
     duration |-> IF Falsy(call.duration) THEN JSUndefined ELSE ParseInt(call.duration),
     type |-> IF call.direction = "outbound-api" THEN "browser-to-phone"
              ELSE "phone-to-browser",
     createdAt |-> call.dateCreated]

\* what getCallDetails(callSid) has returned, or that it is suspended on the fetch
Details(callSid, settled, val) ==
    [op |-> "getCallDetails", in |-> callSid, settled |-> settled, val |-> val]

\* getCallDetails up to its return or to `await this.twilioClient.calls(callSid).fetch()`
GetCallDetails(callSid) ==
    /\ sweepTimer
    /\ IF callSid = NoSid
         THEN /\ out' = Details(callSid, TRUE, JSNull)
              /\ UNCHANGED fetching
         ELSE IF MapHas(activeCalls, callSid)
         THEN /\ out' = Details(callSid, TRUE, activeCalls[callSid])
              /\ UNCHANGED fetching
         ELSE /\ Inflight < MaxInflight
              /\ fetching' = Append(fetching, callSid)
              /\ out' = Details(callSid, FALSE, JSUndefined)
    /\ UNCHANGED <<now, limiterVars, activeCalls, callOrder, placing, ending, issued,
                   sweepTimer, ret>>

\* getCallDetails keeping the session it rebuilt from the carrier's answer
GetCallDetailsCalls_Cache(calls, callSid, answer) ==
    IF answer.ok THEN MapSet(calls, callSid, DetailsView(answer)) ELSE calls

\* the registry after getCallDetails resumes with the carrier's answer
GetCallDetailsCalls(calls, callSid, answer) == calls

\* getCallDetails from the carrier's answer to its return
GetCallDetailsResume(i, answer) ==
    /\ i \in 1..Len(fetching)
    /\ answer \in FetchAnswers(fetching[i])
    /\ activeCalls' = GetCallDetailsCalls(activeCalls, fetching[i], answer)
    /\ callOrder' = MapOrder(callOrder, activeCalls')
    /\ out' = Details(fetching[i], TRUE,
                      IF answer.ok THEN DetailsView(answer) ELSE JSNull)
    /\ fetching' = RemoveAt(fetching, i)
    /\ UNCHANGED <<now, limiterVars, placing, ending, issued, sweepTimer, ret>>

\* the sids of the calls that were placed
PlacedSids == { Sid(i) : i \in 1..MaxPlaced }

\* the session of a placed call as makeBrowserToPhoneCall tracked it at time 0
PlacedSession(sid) ==
    NewActiveCall(sid, PhoneValidator_sanitize(<<"+", "1", "-", "5">>),
                  PhoneValidator_sanitize(<<"b", "r", "o", "w", "s", "e", "r">>), 0)

\* The service after MaxPlaced calls from the browser caller to +15 were placed and
\* tracked at time 0, and more than an hour has passed since
InitPlaced ==
    /\ now = staleMs + 1
    /\ attempts = [id \in {PhoneValidator_sanitize(<<"b", "r", "o", "w", "s", "e", "r">>)} |->
                     [count |-> MaxPlaced, lastAttempt |-> 0]]
    /\ admitted = [id \in LimiterIds |-> <<>>]
    /\ callOrder = [i \in 1..MaxPlaced |-> Sid(i)]
    /\ activeCalls = [sid \in PlacedSids |-> PlacedSession(sid)]
    /\ placing = <<>>
    /\ ending = <<>>
    /\ fetching = <<>>
    /\ issued = PlacedSids
    /\ sweepTimer = TRUE
    /\ ret = Returned("makeBrowserToPhoneCall", "", Sid(MaxPlaced))
    /\ out = NoOut

\* status webhooks of the placed calls: in progress with a Duration, and completed
PlacedPayloads ==
    [null : {FALSE}, CallSid : PlacedSids, CallStatus : {"in-progress"},
     Duration : {<<"4", "2">>}]
    \cup [null : {FALSE}, CallSid : PlacedSids, CallStatus : {"completed"},
          Duration : {Undefined}]

\* dial-status webhooks that name a placed call, with a final dial result
PlacedDialPayloads ==
    [null : {FALSE}, DialCallStatus : {"completed", "busy"}, CallSid : PlacedSids]

NextPlaced ==
    \/ \E p \in PlacedPayloads : HandleCallStatusUpdate(p) /\ UNCHANGED out
    \/ \E sid \in PlacedSids : EndCall(sid)
    \/ \E i \in 1..MaxInflight, ok \in BOOLEAN : EndCallResume(i, ok)
    \/ \E d \in PlacedDialPayloads : HandleDialStatus(d)
    \/ \E sid \in PlacedSids \cup {ForeignSid, NoSid} : GetCallDetails(sid)
    \/ \E i \in 1..Len(fetching) :
          \E answer \in FetchAnswers(fetching[i]) : GetCallDetailsResume(i, answer)
    \/ QueryStatistics
    \/ QueryOldest
    \/ Sweep

SpecPlaced == InitPlaced /\ [][NextPlaced]_vars

----------------------------------------------------------------------------
(* Claims about the limiter *)

\* C1: for every identifier, any maxAttempts + 1 admitted checks are spread over
\* more than windowMs, i.e. no interval of length windowMs (end points included)
\* holds more than maxAttempts checks that returned true, cleanup() sweeps
\* interleaved anywhere.
C1_RollingWindow ==
    \A id \in LimiterIds :
        \A i, j \in 1..Len(admitted[id]) :
            j - i >= maxAttempts => admitted[id][j] - admitted[id][i] > windowMs

\* a sixth check was admitted for an identifier that had been denied at the limit
C1_Witness ==
    \E id \in LimiterIds :
        /\ Len(admitted[id]) > maxAttempts
        /\ MapHas(attempts, id)
        /\ attempts[id].count = 1

\* the time of the first admitted attempt of the identifier's current window
WindowStart(id) == admitted[id][Len(admitted[id]) - attempts[id].count + 1]

\* C2: once maxAttempts checks were admitted in the current window, a check inside
\* the window (counted from the window's first admitted attempt) returns false, and
\* a check more than windowMs after that first attempt returns true and restarts
\* the window with a count of 1.
C2_WindowFromStart ==
    [][\A id \in LimiterIds :
          (MapHas(attempts, id) /\ attempts[id].count >= maxAttempts /\ LimiterCheck(id)) =>
              /\ now <= WindowStart(id) + windowMs => ret'.val = "false"
              /\ now > WindowStart(id) + windowMs =>
                    (ret'.val = "true" /\ attempts'[id].count = 1)]_vars

\* C21: cleanup() removes exactly the identifiers whose last attempt is more than
\* staleMs (3 600 000 ms) old, and leaves every other entry as it was.
C21_CleanupRemovesStale ==
    [][(ret'.op = "cleanup" /\ LimiterCleanup) =>
          /\ DOMAIN attempts' =
                { id \in DOMAIN attempts : ~(now - attempts[id].lastAttempt > staleMs) }
          /\ \A id \in DOMAIN attempts' : attempts'[id] = attempts[id]]_vars

\* a sweep has removed one identifier and kept the other, which is exactly one hour old
C21_Witness ==
    /\ ret.op = "cleanup"
    /\ \E id \in DOMAIN attempts : now - attempts[id].lastAttempt = staleMs
    /\ \E id \in LimiterIds \ DOMAIN attempts : admitted[id] # <<>>

\* C23: check returns false only for an identifier that is inside its current window
\* (at most windowMs after the window's first admitted attempt) and at maxAttempts,
\* and a check that returns false leaves the limiter's map as it was.
C23_DeniedOnlyInsideWindow ==
    [][\A id \in LimiterIds :
          (ret'.op = "check" /\ ret'.val = "false" /\ LimiterCheck(id)) =>
              /\ MapHas(attempts, id)
              /\ attempts[id].count >= maxAttempts
              /\ now <= WindowStart(id) + windowMs
              /\ attempts' = attempts]_vars

----------------------------------------------------------------------------
(* Claims about the service *)

C4_UnknownIdIsNoOp ==
    [][ret'.op = "handleCallStatusUpdate" =>
          \A p \in StatusPayloads :
              (/\ ~p.null /\ p.CallSid # NoSid
               /\ p.CallSid = ret'.arg
               /\ ~MapHas(activeCalls, p.CallSid)
               /\ HandleCallStatusUpdate(p)) =>
                  (activeCalls' = activeCalls /\ ret'.exc = "none")]_vars

\* an event for the foreign call CA0 was handled while a call of ours is tracked
C4_Witness ==
    /\ ret.op = "handleCallStatusUpdate"
    /\ ret.arg = ForeignSid
    /\ DOMAIN activeCalls # {}

\* C5: when the limiter denies the sanitized `from`, placeCall throws the
\* too-many-attempts bad request, sends nothing to the carrier and leaves the registry.
C5_RateLimitedPlacesNothing ==
    [][ret'.op = "makeBrowserToPhoneCall" =>
          \A to \in ToInputs, from \in ServiceFromInputs :
              (/\ ~Falsy(to) /\ ~Falsy(from)
               /\ PhoneValidator_isValid(PhoneValidator_sanitize(to))
               /\ ~RateLimiter_check(attempts, PhoneValidator_sanitize(from), now).ret
               /\ PlaceCall(to, from)) =>
                  /\ ret' = Threw("makeBrowserToPhoneCall", "", "BadRequestException",
                                  TooManyAttempts)
                  /\ UNCHANGED <<placing, issued, activeCalls>>]_vars

\* a placeCall was refused for too many attempts while a call is tracked
C5_Witness ==
    /\ ret = Threw("makeBrowserToPhoneCall", "", "BadRequestException", TooManyAttempts)
    /\ DOMAIN activeCalls # {}

\* C6: with `to` or `from` missing, or a sanitized `to` that is no E.164 number,
\* placeCall throws a bad request (missing parameters / invalid destination) and
\* changes nothing: no carrier request, nothing tracked, no attempt recorded.
C6_InvalidRequestChangesNothing ==
    [][ret'.op = "makeBrowserToPhoneCall" =>
          \A to \in ToInputs, from \in ServiceFromInputs :
              (/\ \/ Falsy(to)
                  \/ Falsy(from)
                  \/ ~PhoneValidator_isValid(PhoneValidator_sanitize(to))
               /\ PlaceCall(to, from)) =>
                  /\ ret'.exc = "BadRequestException"
                  /\ ret'.val = IF Falsy(to) \/ Falsy(from) THEN MissingParams
                                ELSE InvalidDestination
                  /\ UNCHANGED <<attempts, placing, issued, activeCalls>>]_vars

\* an invalid destination was refused while the caller has attempts on record
C6_Witness ==
    /\ ret = Threw("makeBrowserToPhoneCall", "", "BadRequestException", InvalidDestination)
    /\ attempts # EmptyMap
    /\ DOMAIN activeCalls # {}

\* C7: when placeCall succeeds the registry holds, under the sid the carrier
\* returned, a session with that sid, status initiated, type browser-to-phone and
\* the sanitized `to` and `from` of the request; and a sid enters the registry only
\* in the step in which a placeCall resumes with that sid from the carrier.
C7_TrackedAfterCarrier ==
    [][/\ \A i \in 1..Len(placing) :
             (/\ placing[i].resp # CarrierError
              /\ ret'.op = "makeBrowserToPhoneCall"
              /\ PlaceCallResume(i)) =>
                 /\ ret' = Returned("makeBrowserToPhoneCall", "", placing[i].resp)
                 /\ MapHas(activeCalls', placing[i].resp)
                 /\ LET c == activeCalls'[placing[i].resp]
                    IN  /\ c.sid = placing[i].resp
                        /\ c.status = "initiated"
                        /\ c.type = "browser-to-phone"
                        /\ c.to = PhoneValidator_sanitize(placing[i].to)
                        /\ c.from = PhoneValidator_sanitize(placing[i].from)
       /\ \A sid \in (DOMAIN activeCalls') \ (DOMAIN activeCalls) :
             \E i \in 1..Len(placing) : PlaceCallResume(i) /\ placing[i].resp = sid]_vars

\* placeCall has returned the call CA1 and CA1 is tracked
C7_Witness ==
    /\ ret = Returned("makeBrowserToPhoneCall", "", Sid(1))
    /\ MapHas(activeCalls, Sid(1))

\* C8: when the carrier's createCall fails, placeCall throws an internal server
\* error (not a bad request) and the registry is left as it was.
C8_CarrierFailureSurfaced ==
    [][\A i \in 1..Len(placing) :
          (/\ placing[i].resp = CarrierError
           /\ ret'.op = "makeBrowserToPhoneCall"
           /\ PlaceCallResume(i)) =>
              /\ ret'.exc = "InternalServerErrorException"
              /\ activeCalls' = activeCalls]_vars

\* a placeCall failed at the carrier while a call is tracked
C8_Witness ==
    /\ ret.op = "makeBrowserToPhoneCall"
    /\ ret.exc = "InternalServerErrorException"
    /\ DOMAIN activeCalls # {}

\* C9: endCall never throws; with an empty id it returns false, with no carrier
\* request and the registry untouched; otherwise it sends the carrier an update,
\* and returns true with the id absent from the registry if the carrier succeeds,
\* false if the carrier fails.
C9_EndCall ==
    [][/\ (ret'.op = "endCall" /\ EndCall(NoSid)) =>
             (ret' = Returned("endCall", NoSid, "false")
                /\ UNCHANGED <<activeCalls, ending, placing>>)
       /\ \A sid \in SidInputs \ {NoSid} :
             (ret'.op = "endCall" /\ EndCall(sid)) =>
                 (ending' = Append(ending, sid) /\ ret'.exc = "none")
       /\ \A i \in 1..Len(ending) : \A ok \in BOOLEAN :
             (ret'.op = "endCall" /\ EndCallResume(i, ok)) =>
                 /\ ret'.exc = "none"
                 /\ ok => (ret'.val = "true" /\ ~MapHas(activeCalls', ending[i]))
                 /\ ~ok => ret'.val = "false"]_vars

\* endCall(CA1) has returned true after CA1 was placed and tracked
C9_Witness ==
    /\ ret = Returned("endCall", Sid(1), "true")
    /\ placing = <<>>
    /\ ~MapHas(activeCalls, Sid(1))

\* C10: a status event that is null or has no CallSid is dropped: the registry and
\* the limiter are unchanged and nothing is thrown.
C10_MalformedEventDropped ==
    [][ret'.op = "handleCallStatusUpdate" =>
          \A p \in StatusPayloads :
              ((p.null \/ p.CallSid = NoSid) /\ HandleCallStatusUpdate(p)) =>
                  (UNCHANGED <<activeCalls, attempts>> /\ ret'.exc = "none")]_vars

\* an event without a call sid was handled while a call is tracked
C10_Witness ==
    /\ ret = Returned("handleCallStatusUpdate", NoSid, "void")
    /\ DOMAIN activeCalls # {}
    /\ attempts # EmptyMap

\* the position of a status on initiated -> ringing -> in-progress -> terminal
StatusRank(status) ==
    IF status = "initiated" THEN 0
    ELSE IF status = "ringing" THEN 1
    ELSE IF status = "in-progress" THEN 2
    ELSE 3

\* C11: the status of a session that stays tracked never moves back along
\* initiated -> ringing -> in-progress -> terminal, whatever the order in which
\* status events are delivered.
C11_StatusOnlyForward ==
    [][\A sid \in (DOMAIN activeCalls) \cap (DOMAIN activeCalls') :
          StatusRank(activeCalls'[sid].status) >= StatusRank(activeCalls[sid].status)]_vars

----------------------------------------------------------------------------
(* Claims about the registry *)

\* what C12 compares: the tracked ids with the status and duration of each
SessionView(calls) ==
    [sid \in DOMAIN calls |-> [status |-> calls[sid].status, duration |-> calls[sid].duration]]

\* C12: delivering a status event a second time in a row leaves the registry with
\* the same ids and the same status and duration per session as the first delivery left.
C12_RepeatedEventIdempotent ==
    [][\A p \in RegistryPayloads :
          (/\ out.op = "handleCallStatusUpdate"
           /\ out.val = p
           /\ DeliverStatusEvent(p)) =>
              SessionView(activeCalls') = SessionView(activeCalls)]_vars

\* an in-progress event with Duration 42 was delivered for a tracked call and then
\* delivered again at a later time
C12_Witness ==
    /\ out.op = "handleCallStatusUpdate"
    /\ out.again
    /\ ~out.val.null
    /\ MapHas(activeCalls, out.val.CallSid)
    /\ activeCalls[out.val.CallSid].duration = JSNumber(42)
    /\ activeCalls[out.val.CallSid].lastUpdated = JSNumber(now)
    /\ now > 0

\* C16: get(id) right after track(id, s) returns s; get(id) right after remove(id)
\* returns nothing; a second remove(id) in a row changes nothing.
C16_RegistryRoundTrip ==
    [][\A sid \in RegistrySids \cup {ForeignSid} :
          /\ (ret = Returned("trackActiveCall", sid, "void") /\ RegistryGet(sid)) =>
                 out'.val = out.val
          /\ (ret = Returned("delete", sid, "void") /\ RegistryGet(sid)) =>
                 out'.val = JSUndefined
          /\ (ret = Returned("delete", sid, "void") /\ RegistryDelete(sid)) =>
                 (activeCalls' = activeCalls /\ callOrder' = callOrder)]_vars

\* CA1 was tracked again over a session a status event had updated, and then read
C16_Witness ==
    /\ ret = Returned("get", Sid(1), "void")
    /\ out.op = "get"
    /\ out.val = NewActiveCall(Sid(1), <<"+", "1", "5">>, <<"+", "1">>, now)
    /\ now > 0
    /\ Len(callOrder) = MaxTracked

----------------------------------------------------------------------------
(* Claims about the queries *)

\* the positions in iteration order of the sessions that are completed and have a
\* duration (0 included)
CompletedWithDuration ==
    { i \in 1..Len(callOrder) :
        /\ activeCalls[callOrder[i]].status = "completed"
        /\ activeCalls[callOrder[i]].duration.kind = "number" }

RECURSIVE SumDurations(_)
SumDurations(S) ==
    IF S = {} THEN 0
    ELSE LET i == CHOOSE j \in S : TRUE
         IN  activeCalls[callOrder[i]].duration.v + SumDurations(S \ {i})

\* C13: averageCallDuration is the mean of duration over the tracked sessions that
\* are completed and have a duration (a duration of 0 counts), and 0 when there
\* is none.
C13_AverageOverCompleted ==
    out.op = "getCallStatistics" =>
        LET avg == out.val.averageCallDuration
        IN  IF CompletedWithDuration = {} THEN avg.num = 0
            ELSE avg.num * Cardinality(CompletedWithDuration)
                     = avg.den * SumDurations(CompletedWithDuration)

\* the number of tracked sessions whose field f has the value x
CountWhere(f, x) == Cardinality({ sid \in DOMAIN activeCalls : activeCalls[sid][f] = x })

RECURSIVE SumCounts(_, _)
SumCounts(obj, K) ==
    IF K = {} THEN 0
    ELSE LET k == CHOOSE x \in K : TRUE
         IN  obj[k].v + SumCounts(obj, K \ {k})

\* C14: totalActiveCalls is the number of tracked sessions, callsByStatus and
\* callsByType have exactly the statuses and types that occur as keys, each with the
\* number of sessions that have it, and each map's counts sum to totalActiveCalls.
C14_CountsPerGroup ==
    out.op = "getCallStatistics" =>
        LET st == out.val IN
        /\ st.totalActiveCalls = Cardinality(DOMAIN activeCalls)
        /\ DOMAIN st.callsByStatus = { activeCalls[sid].status : sid \in DOMAIN activeCalls }
        /\ DOMAIN st.callsByType = { activeCalls[sid].type : sid \in DOMAIN activeCalls }
        /\ \A k \in DOMAIN st.callsByStatus :
              st.callsByStatus[k] = JSNumber(CountWhere("status", k))
        /\ \A k \in DOMAIN st.callsByType :
              st.callsByType[k] = JSNumber(CountWhere("type", k))
        /\ SumCounts(st.callsByStatus, DOMAIN st.callsByStatus) = st.totalActiveCalls
        /\ SumCounts(st.callsByType, DOMAIN st.callsByType) = st.totalActiveCalls

\* C15: getOldestActiveCall returns null on an empty registry, and otherwise the
\* first session in iteration order among those whose createdAt is minimal.
C15_OldestFirstOfMinimal ==
    out.op = "getOldestActiveCall" =>
        IF callOrder = <<>> THEN out.val = JSNull
        ELSE \E i \in 1..Len(callOrder) :
                /\ out.val = activeCalls[callOrder[i]]
                /\ \A j \in 1..Len(callOrder) :
                      /\ activeCalls[callOrder[j]].createdAt >= out.val.createdAt
                      /\ activeCalls[callOrder[j]].createdAt = out.val.createdAt => i <= j

\* the oldest call was asked of a registry whose two sessions were created at the
\* same instant, CA2 inserted before CA1
C15_Witness ==
    /\ out.op = "getOldestActiveCall"
    /\ callOrder = <<Sid(2), Sid(1)>>
    /\ activeCalls[Sid(1)].createdAt = activeCalls[Sid(2)].createdAt
    /\ out.val.sid = Sid(2)

----------------------------------------------------------------------------
(* Claims about the TwiML documents *)

\* the texts a document announces, and its dial instructions
SayTexts(doc) == { doc[i].text : i \in { j \in 1..Len(doc) : doc[j].verb = "Say" } }

DialVerbs(doc) == { i \in 1..Len(doc) : doc[i].verb = "Dial" }

\* C17: the incoming-call document generated without a client identity is the
\* unavailability announcement alone: no dial instruction and no hold announcement.
C17_NoIdentityOnlyUnavailable ==
    (out.op = "generateIncomingCall" /\ Falsy(out.in[1])) =>
        /\ out.exc = "none"
        /\ SayTexts(out.doc) = {UnavailableText}
        /\ DialVerbs(out.doc) = {}

\* the announcement the dial-status document is to make for a dial status
DialStatusText(status) ==
    IF status \in {"no-answer", "busy", "failed"} THEN NotCompletedText
    ELSE IF status = "completed" THEN ThankYouText
    ELSE CallEndedText

\* C18: the dial-status document is one announcement, never an error: the apology
\* for no-answer, busy and failed, the thank-you for completed, and "Call ended."
\* for every other status, an absent one and an absent body included.
C18_DialStatusTotal ==
    /\ out.op = "generateDialStatus" =>
           (out.exc = "none" /\ Len(out.doc) = 1
              /\ SayTexts(out.doc) = {DialStatusText(out.in[1])})
    /\ out.op = "handleDialStatus" =>
           (out.exc = "none" /\ Len(out.doc) = 1
              /\ SayTexts(out.doc) = {IF out.in.null THEN CallEndedText
                                      ELSE DialStatusText(out.in.DialCallStatus)})

\* the dial-status document was generated for a status the switch does not name
C18_Witness ==
    /\ out.op = "generateDialStatus"
    /\ out.in[1] = "answered"
    /\ out.doc = <<SayVerb("", CallEndedText)>>

\* C19: the outbound document for a string `to` is exactly one dial instruction, with
\* caller id `from`, timeout 30 and answerOnBridge, and one target: the client named
\* by `to` without its leading "client:" when `to` starts with it, else the number `to`.
C19_OutboundDial ==
    (out.op = "generateOutboundCall" /\ IsString(out.in[1])) =>
        LET to == out.in[1] IN
        /\ out.exc = "none"
        /\ Len(out.doc) = 1
        /\ out.doc[1].verb = "Dial"
        /\ out.doc[1].callerId = out.in[2]
        /\ out.doc[1].timeout = 30
        /\ out.doc[1].answerOnBridge
        /\ out.doc[1].nouns =
              IF Len(to) >= 7 /\ SubSeq(to, 1, 7) = <<"c", "l", "i", "e", "n", "t", ":">>
                  THEN <<[noun |-> "Client", value |-> SubSeq(to, 8, Len(to))]>>
                  ELSE <<[noun |-> "Number", value |-> to]>>

\* the outbound document was generated for "client:client:b"
C19_Witness ==
    /\ out.op = "generateOutboundCall"
    /\ out.in[1] = ClientPrefix \o ClientPrefix \o <<"b">>
    /\ out.doc[1].nouns = <<ClientNoun(ClientPrefix \o <<"b">>)>>

\* the Error document: the single fallback announcement
IsErrorDocument(doc) ==
    Len(doc) = 1 /\ doc[1].verb = "Say" /\ doc[1].voice = "alice"

\* C20: the service methods that return a document (voice response, incoming-call
\* response, dial-status response) never throw, and return the Error document when
\* an input they need is missing or is no string, or the body of a webhook is absent.
C20_GenerationNeverRaises ==
    /\ out.op \in {"generateTwiMLResponse", "generateIncomingCallTwiML", "handleDialStatus"} =>
           out.exc = "none"
    /\ (out.op = "generateTwiMLResponse" /\ out.in[3] = "outbound" /\ ~IsString(out.in[1])) =>
           IsErrorDocument(out.doc)
    /\ (out.op = "generateIncomingCallTwiML"
          /\ (Falsy(out.in[1]) \/ Falsy(out.in[2]) \/ ~IsString(out.in[1]))) =>
           IsErrorDocument(out.doc)
    /\ (out.op = "handleDialStatus" /\ out.in.null) => IsErrorDocument(out.doc)

----------------------------------------------------------------------------
(* Claims about shutdown *)

\* C22: the step of shutdown leaves the registry and the limiter's map empty and
\* the sweep timer cancelled; the timer stays cancelled and the sweep never runs again.
C22_ShutdownClears ==
    [][/\ (ret'.op = "onModuleDestroy" /\ Shutdown) =>
             (activeCalls' = EmptyMap /\ callOrder' = <<>> /\ attempts' = EmptyMap
                /\ ~sweepTimer')
       /\ ~sweepTimer => (~sweepTimer' /\ ~Sweep)]_vars

\* the service was shut down at a later time than a call it had placed
C22_Witness ==
    /\ ret.op = "onModuleDestroy"
    /\ ~sweepTimer
    /\ issued # {}
    /\ now > 0

\* C26: once a terminal-status event for a call id has been handled the id is absent
\* from the registry; here, while that event is still the latest one delivered,
\* whatever makeBrowserToPhoneCall did before or after it.
C26_AbsentAfterTerminalEvent ==
    (out.op = "handleCallStatusUpdate" /\ out.val.CallStatus \in TerminalStatuses)
        => ~MapHas(activeCalls, out.val.CallSid)

\* C27: of the create requests sent to the carrier for one sanitized caller
\* identifier, at most maxAttempts fall in any interval of length windowMs, however
\* the suspended requests interleave.
C27_CreatesPerWindow ==
    \A id \in LimiterIds :
        \A i, j \in 1..Len(admitted[id]) :
            j - i >= maxAttempts => admitted[id][j] - admitted[id][i] > windowMs

\* two requests of the caller are suspended on the carrier, maxAttempts create
\* requests were sent in the current window and a further request was refused
C27_Witness ==
    /\ Len(placing) >= 2
    /\ \E id \in LimiterIds :
          /\ Len(admitted[id]) >= maxAttempts
          /\ admitted[id][Len(admitted[id])] - admitted[id][Len(admitted[id]) + 1 - maxAttempts]
                <= windowMs
    /\ ret.exc = "BadRequestException"
    /\ ret.val = TooManyAttempts

\* C28: a placeCall that was suspended on the carrier when the service was shut
\* down leaves the registry empty when it finishes.
C28_NoTrackingAfterShutdown ==
    [][\A i \in 1..Len(placing) :
          (~sweepTimer /\ ret'.op = "makeBrowserToPhoneCall" /\ PlaceCallResume(i)) =>
              activeCalls' = EmptyMap]_vars

----------------------------------------------------------------------------
(* Claims about the handlers that leave the sessions alone *)

\* C24: getCallDetails never changes the registry; for a tracked id it returns the
\* tracked session and sends nothing to the carrier; for an untracked id it sends one
\* fetch and returns the view rebuilt from the answer, which it does not insert; when
\* the fetch fails it returns null.
C24_GetCallDetailsReadsOnly ==
    [][out'.op = "getCallDetails" =>
          /\ \A sid \in PlacedSids \cup {ForeignSid, NoSid} :
                GetCallDetails(sid) =>
                    /\ activeCalls' = activeCalls /\ callOrder' = callOrder
                    /\ MapHas(activeCalls, sid) =>
                          (fetching' = fetching /\ out'.settled /\ out'.val = activeCalls[sid])
                    /\ (~MapHas(activeCalls, sid) /\ sid # NoSid) =>
                          (fetching' = Append(fetching, sid) /\ ~out'.settled)
          /\ \A i \in 1..Len(fetching) : \A answer \in FetchAnswers(fetching[i]) :
                GetCallDetailsResume(i, answer) =>
                    /\ activeCalls' = activeCalls /\ callOrder' = callOrder
                    /\ Len(fetching') = Len(fetching) - 1
                    /\ out'.settled
                    /\ ~answer.ok => out'.val = JSNull
                    /\ answer.ok =>
                          /\ out'.val.sid = fetching[i]
                          /\ out'.val.status = answer.status
                          /\ out'.val.to = answer.to /\ out'.val.from = answer.from
                          /\ out'.val.createdAt = answer.dateCreated]_vars

\* getCallDetails has returned the rebuilt view of an inbound call that is not tracked
C24_Witness ==
    /\ out.op = "getCallDetails"
    /\ out.settled
    /\ out.val # JSNull
    /\ ~MapHas(activeCalls, out.in)
    /\ out.val.type = "phone-to-browser"
    /\ out.val.duration = JSNumber(42)

\* C25: a dial-status webhook leaves the registry and the limiter's map as they were,
\* also when it reports a final dial result for a tracked call.
C25_DialStatusChangesNothing ==
    [][out'.op = "handleDialStatus" =>
          \A d \in PlacedDialPayloads :
              HandleDialStatus(d) =>
                  (activeCalls' = activeCalls /\ callOrder' = callOrder
                     /\ attempts' = attempts)]_vars

\* a dial-status webhook reported 'completed' for a call that is tracked as in progress
C25_Witness ==
    /\ out.op = "handleDialStatus"
    /\ out.in.DialCallStatus = "completed"
    /\ MapHas(activeCalls, out.in.CallSid)
    /\ activeCalls[out.in.CallSid].status = "in-progress"
    /\ attempts # EmptyMap

\* C29: a status webhook changes only status, duration and lastUpdated of the session
\* it names: the sid, to, from, type and createdAt of a session that stays tracked are
\* those it was tracked with, and every other session is unchanged.
C29_StatusUpdateFrame ==
    [][ret'.op = "handleCallStatusUpdate" =>
          \A p \in PlacedPayloads :
              HandleCallStatusUpdate(p) =>
                  \A sid \in DOMAIN activeCalls :
                      /\ sid # p.CallSid =>
                            (MapHas(activeCalls', sid) /\ activeCalls'[sid] = activeCalls[sid])
                      /\ MapHas(activeCalls', sid) =>
                            /\ activeCalls'[sid].sid = PlacedSession(sid).sid
                            /\ activeCalls'[sid].to = PlacedSession(sid).to
                            /\ activeCalls'[sid].from = PlacedSession(sid).from
                            /\ activeCalls'[sid].type = PlacedSession(sid).type
                            /\ activeCalls'[sid].createdAt = PlacedSession(sid).createdAt]_vars

\* a status webhook has updated one session while another is tracked as it was placed
C29_Witness ==
    /\ ret.op = "handleCallStatusUpdate"
    /\ MapHas(activeCalls, ret.arg)
    /\ activeCalls[ret.arg].status = "in-progress"
    /\ activeCalls[ret.arg].duration = JSNumber(42)
    /\ activeCalls[ret.arg].lastUpdated = JSNumber(now)
    /\ \E sid \in DOMAIN activeCalls : sid # ret.arg /\ activeCalls[sid] = PlacedSession(sid)

\* C30: a step that changes the status of a session that stays tracked is a step of
\* handleCallStatusUpdate; endCall, the dial-status webhook, getCallDetails, the
\* queries and the limiter's sweep change no such status.
C30_StatusOnlyByStatusUpdate ==
    [][(\E sid \in DOMAIN activeCalls \cap DOMAIN activeCalls' :
            activeCalls'[sid].status # activeCalls[sid].status)
          => \E p \in PlacedPayloads : HandleCallStatusUpdate(p)]_vars

\* endCall failed for a call in progress, which is still tracked as in progress after
\* the sweep emptied the limiter and getCallDetails returned
C30_Witness ==
    /\ ret.op = "endCall"
    /\ ret.val = "false"
    /\ MapHas(activeCalls, ret.arg)
    /\ activeCalls[ret.arg].status = "in-progress"
    /\ attempts = EmptyMap
    /\ out.op = "getCallDetails"
    /\ out.settled

----------------------------------------------------------------------------
(* Claims about merging, the sweep and failures of the carrier *)

\* C31: a status event that carries no Duration leaves the duration recorded on a
\* session that stays tracked as it was.
C31_DurationKeptWithoutDuration ==
    [][out'.op = "handleCallStatusUpdate" =>
          \A p \in RegistryPayloads :
              (/\ ~p.null
               /\ Falsy(p.Duration)
               /\ MapHas(activeCalls, p.CallSid)
               /\ DeliverStatusEvent(p)
               /\ MapHas(activeCalls', p.CallSid)) =>
                  activeCalls'[p.CallSid].duration = activeCalls[p.CallSid].duration]_vars

\* the limiter's map had cleanup() never been called: the admitted checks of an
\* identifier replayed on an empty map (a refused check changes nothing)
RECURSIVE CheckAll(_, _, _)
CheckAll(att, id, times) ==
    IF times = <<>> THEN att
    ELSE CheckAll(RateLimiter_check(att, id, Head(times)).att, id, Tail(times))

\* C32: every check gives the result it would give had cleanup() never been called,
\* so the results of a sequence of checks do not depend on the interleaved sweeps.
C32_SweepNeverChangesResults ==
    [][ret'.op = "check" =>
          \A id \in LimiterIds :
              LimiterCheck(id) =>
                  ret'.val = BoolStr(RateLimiter_check(CheckAll(EmptyMap, id, admitted[id]),
                                                       id, now).ret)]_vars

\* a check was answered while the entry of an identifier that had been admitted
\* before is gone from the map, removed by a sweep
C32_Witness ==
    /\ ret.op = "check"
    /\ ret.val = "true"
    /\ \E id \in LimiterIds : admitted[id] # <<>> /\ ~MapHas(attempts, id)
    /\ \E id \in LimiterIds :
          /\ Len(admitted[id]) >= 2
          /\ admitted[id][Len(admitted[id])] = now
          /\ now > staleMs

\* C34: when the carrier's update fails, endCall leaves the registry as it was: a
\* session tracked under the id stays tracked with the same status.
C34_FailedEndCallKeepsSession ==
    [][ret'.op = "endCall" =>
          \A i \in 1..Len(ending) :
              EndCallResume(i, FALSE) =>
                  /\ ret'.val = "false"
                  /\ activeCalls' = activeCalls
                  /\ callOrder' = callOrder]_vars

\* endCall has failed for a call that is tracked as placed while the other call is gone
C34_Witness ==
    /\ ret.op = "endCall"
    /\ ret.val = "false"
    /\ ending = <<>>
    /\ MapHas(activeCalls, ret.arg)
    /\ activeCalls[ret.arg].status = "initiated"
    /\ Cardinality(DOMAIN activeCalls) < Cardinality(issued)

----------------------------------------------------------------------------
(* Claims about what the limiter counts for makeBrowserToPhoneCall *)

\* C33: the attempt is counted in the step that passes the limiter, before the
\* carrier answers, and a makeBrowserToPhoneCall whose calls.create fails leaves the
\* counted attempt in place.
C33_FailedCallStillCounts ==
    [][ret'.op = "makeBrowserToPhoneCall" =>
          /\ \A to \in ConcurrentToInputs, from \in ConcurrentFromInputs :
                (ret'.val = "pending" /\ PlaceCallObserved(to, from)) =>
                    LET id == PhoneValidator_sanitize(from)
                    IN  /\ MapHas(attempts', id)
                        /\ attempts'[id].lastAttempt = now
                        /\ attempts'[id].count =
                              IF MapHas(attempts, id) /\ now - attempts[id].lastAttempt <= windowMs
                                 THEN attempts[id].count + 1
                                 ELSE 1
          /\ \A i \in 1..Len(placing) :
                (placing[i].resp = CarrierError /\ PlaceCallResume(i)) =>
                    /\ attempts' = attempts
                    /\ ret'.exc = "InternalServerErrorException"]_vars

\* five calls of the caller were refused by the carrier, none was created, and the
\* limiter holds all five attempts
C33_Witness ==
    /\ ret.op = "makeBrowserToPhoneCall"
    /\ ret.exc = "InternalServerErrorException"
    /\ issued = {}
    /\ placing = <<>>
    /\ \E id \in DOMAIN attempts :
          attempts[id].count = maxAttempts /\ Len(admitted[id]) = maxAttempts

\* C36: whether makeBrowserToPhoneCall is refused depends on the entry of the
\* sanitized `from` alone, so spellings that sanitize alike share one budget; and a
\* request changes the entry of no other identifier.
C36_BudgetPerSanitizedFrom ==
    [][ret'.op = "makeBrowserToPhoneCall" =>
          \A to \in ConcurrentToInputs, from \in FromInputs \ {Undefined} :
              PlaceCall(to, from) =>
                  LET id == PhoneValidator_sanitize(from)
                  IN  /\ (ret'.val = TooManyAttempts) <=>
                            (/\ MapHas(attempts, id)
                             /\ now - attempts[id].lastAttempt <= windowMs
                             /\ attempts[id].count >= maxAttempts)
                      /\ ret'.val = "pending" => MapHas(attempts', id)
                      /\ \A other \in FromInputs \ {Undefined} :
                            PhoneValidator_sanitize(other) = id =>
                                PlaceCallAdmission(attempts, to, other, now)
                                    = PlaceCallAdmission(attempts, to, from, now)
                      /\ \A k \in (DOMAIN attempts \cup DOMAIN attempts') \ {id} :
                            /\ MapHas(attempts, k)
                            /\ MapHas(attempts', k)
                            /\ attempts'[k] = attempts[k]]_vars

\* a request spelled 'web' is suspended, the budget it shares with 'browser' is used
\* up and a further request was refused, while the caller +15 has budget left
C36_Witness ==
    /\ ret.val = TooManyAttempts
    /\ Len(placing) = 1
    /\ placing[1].from = <<"w", "e", "b">>
    /\ MapHas(attempts, <<"+", "1">>)
    /\ attempts[<<"+", "1">>].count = maxAttempts
    /\ MapHas(attempts, <<"+", "1", "5">>)
    /\ attempts[<<"+", "1", "5">>].count < maxAttempts

====
